---- MODULE Spec2Model ----
(***************************************************************************)
(* A model of the JSON viewer: the browser script src/public/script.js     *)
(* (section detection, table projection, cell write-back, load, save and   *)
(* file import) and the file store of src/server.js.                       *)
(*                                                                         *)
(* script.js holds two copies of the script one after the other (lines     *)
(* 1-330 and 333-1060).  The second copy is the one with the table view;   *)
(* where a function is declared in both, the later declaration is the one  *)
(* modelled.  The single exception is the row-edit state that only the     *)
(* first copy's file import resets (lines 159-163): see FileImportReset.   *)
(***************************************************************************)
EXTENDS Integers, Sequences, FiniteSets, TLC

(***************************************************************************)
(* JSON values.  A value is a record [t, v]: t is the kind, v the payload. *)
(*   null    [t |-> "null", v |-> 0]                                       *)
(*   bool    [t |-> "bool", v |-> TRUE]                                    *)
(*   num     [t |-> "num",  v |-> [fin, n, e]]  the number n / 10^e, or,   *)
(*           with fin = FALSE, Infinity                                    *)
(*   str     [t |-> "str",  v |-> <<"h","i">>]  a sequence of characters   *)
(*   arr     [t |-> "arr",  v |-> <<value, ...>>]                          *)
(*   obj     [t |-> "obj",  v |-> <<[k |-> key, v |-> value], ...>>]       *)
(* An object keeps its properties in insertion order, as Object.entries    *)
(* sees them.  Property names are TLA+ strings.                            *)
(***************************************************************************)
JNull == [t |-> "null", v |-> 0]
JBool(b) == [t |-> "bool", v |-> b]
JNum(n, e) == [t |-> "num", v |-> [fin |-> TRUE, n |-> n, e |-> e]]
JInt(n) == JNum(n, 0)
JInf == [t |-> "num", v |-> [fin |-> FALSE, n |-> 0, e |-> 0]]
JStr(s) == [t |-> "str", v |-> s]
JArr(items) == [t |-> "arr", v |-> items]
JObj(props) == [t |-> "obj", v |-> props]
P(k, x) == [k |-> k, v |-> x]

\* typeof x === "object": true of null, of arrays and of objects.
TypeofObject(x) == x.t \in {"null", "arr", "obj"}

\* Array.isArray(x)
IsArray(x) == x.t = "arr"

\* JavaScript truthiness of a JSON value: null, false, 0 and "" are falsy.
Truthy(x) ==
  CASE x.t = "null" -> FALSE
    [] x.t = "bool" -> x.v
    [] x.t = "num" -> ~(x.v.fin /\ x.v.n = 0)
    [] x.t = "str" -> x.v # <<>>
    [] OTHER -> TRUE

\* v && typeof v === "object"
TruthyObject(x) == Truthy(x) /\ TypeofObject(x)

Range(s) == {s[i] : i \in DOMAIN s}

\* Property names of an object, in order (Object.keys).
ObjKeys(o) == [i \in DOMAIN o.v |-> o.v[i].k]
HasKey(o, k) == \E i \in DOMAIN o.v : o.v[i].k = k
KeyIdx(o, k) == CHOOSE i \in DOMAIN o.v : o.v[i].k = k

\* o[k] for an object o that has the property k.
GetProp(o, k) == o.v[KeyIdx(o, k)].v

\* o[k] = x: overwrite in place when k exists, else append (insertion order).
SetProp(o, k, x) ==
  IF HasKey(o, k)
    THEN [o EXCEPT !.v[KeyIdx(o, k)].v = x]
    ELSE [o EXCEPT !.v = Append(o.v, P(k, x))]

(***************************************************************************)
(* Characters and numbers.  String values are sequences of one-character   *)
(* strings, so that trim, Number() and String() are computed character by  *)
(* character.                                                              *)
(***************************************************************************)
Digits == <<"0", "1", "2", "3", "4", "5", "6", "7", "8", "9">>
IsDigit(c) == \E i \in DOMAIN Digits : Digits[i] = c
DigitVal(c) == (CHOOSE i \in DOMAIN Digits : Digits[i] = c) - 1

\* The characters of a property name, for the names the documents use
\* (the synthetic __key column holds a property name as a string value).
KeyChars(k) ==
  CASE k = "a" -> <<"a">>
    [] k = "b" -> <<"b">>
    [] k = "n" -> <<"n">>
    [] k = "m1" -> <<"m", "1">>
    [] k = "m2" -> <<"m", "2">>
    [] k = "items" -> <<"i", "t", "e", "m", "s">>
    [] k = "Meshes" -> <<"M", "e", "s", "h", "e", "s">>
    [] k = "visible" -> <<"v", "i", "s", "i", "b", "l", "e">>
    [] k = "__key" -> <<"_", "_", "k", "e", "y">>

\* String.prototype.trim, for the space character.
RECURSIVE TrimLeft(_)
TrimLeft(s) == IF s # <<>> /\ Head(s) = " " THEN TrimLeft(Tail(s)) ELSE s
RECURSIVE TrimRight(_)
TrimRight(s) ==
  IF s # <<>> /\ s[Len(s)] = " " THEN TrimRight(SubSeq(s, 1, Len(s) - 1)) ELSE s
Trim(s) == TrimRight(TrimLeft(s))

AllDigits(s) == \A i \in DOMAIN s : IsDigit(s[i])
RECURSIVE DigitsToInt(_)
DigitsToInt(s) ==
  IF s = <<>> THEN 0 ELSE 10 * DigitsToInt(SubSeq(s, 1, Len(s) - 1)) + DigitVal(s[Len(s)])
RECURSIVE Pow10(_)
Pow10(e) == IF e = 0 THEN 1 ELSE 10 * Pow10(e - 1)

\* n / 10^e in lowest terms of e (35/10 stays, 350/100 becomes 35/10, 40/10 becomes 4).
RECURSIVE Normal(_, _)
Normal(n, e) == IF e > 0 /\ n % 10 = 0 THEN Normal(n \div 10, e - 1) ELSE JNum(n, e)

DotAt(s) == IF \E i \in DOMAIN s : s[i] = "." THEN CHOOSE i \in DOMAIN s : s[i] = "." ELSE 0

\* Number(s) for an unsigned decimal literal s: digits, digits.digits, digits. or
\* .digits; the empty string is 0; "Infinity" is Infinity.  NaN is [ok |-> FALSE].
UnsignedNumber(s) ==
  LET d == DotAt(s)
      ip == IF d = 0 THEN s ELSE SubSeq(s, 1, d - 1)
      fp == IF d = 0 THEN <<>> ELSE SubSeq(s, d + 1, Len(s))
  IN  IF s = <<"I", "n", "f", "i", "n", "i", "t", "y">> THEN [ok |-> TRUE, num |-> JInf]
      ELSE IF AllDigits(ip) /\ AllDigits(fp) /\ (ip # <<>> \/ fp # <<>>)
        THEN [ok |-> TRUE, num |-> Normal(DigitsToInt(ip \o fp), Len(fp))]
      ELSE [ok |-> FALSE, num |-> JInf]

Negate(x) == IF x.v.fin THEN JNum(0 - x.v.n, x.v.e) ELSE x

\* Number(s): the numeric value of the string s, for decimal literals with an
\* optional sign.  (Exponents and hexadecimal literals are not modelled; no raw
\* value of the model uses them.)
Number(s) ==
  IF s = <<>> THEN [ok |-> TRUE, num |-> JInt(0)]
  ELSE IF Head(s) = "-"
    THEN LET u == UnsignedNumber(Tail(s)) IN [ok |-> u.ok, num |-> Negate(u.num)]
  ELSE IF Head(s) = "+" THEN UnsignedNumber(Tail(s))
  ELSE UnsignedNumber(s)

RECURSIVE NatToChars(_)
NatToChars(n) ==
  IF n < 10 THEN <<Digits[n + 1]>> ELSE NatToChars(n \div 10) \o <<Digits[(n % 10) + 1]>>

RECURSIVE PadLeft(_, _)
PadLeft(s, w) == IF Len(s) >= w THEN s ELSE PadLeft(<<"0">> \o s, w)

\* String(x) for a number x.
NumToChars(x) ==
  IF ~x.v.fin THEN <<"I", "n", "f", "i", "n", "i", "t", "y">>
  ELSE LET m == IF x.v.n < 0 THEN 0 - x.v.n ELSE x.v.n
           sign == IF x.v.n < 0 THEN <<"-">> ELSE <<>>
           p == Pow10(x.v.e)
       IN  IF x.v.e = 0 THEN sign \o NatToChars(m)
           ELSE sign \o NatToChars(m \div p) \o <<".">> \o PadLeft(NatToChars(m % p), x.v.e)


(***************************************************************************)
(* JSON text.  A text is [ok, val]: ok says whether JSON.parse accepts it, *)
(* val is the value it denotes.  Stringify is lossy the way JSON.stringify *)
(* is: a number that is not finite is written as null.                     *)
(***************************************************************************)
RECURSIVE ToJSON(_)
ToJSON(x) ==
  CASE x.t = "num" -> IF x.v.fin THEN x ELSE JNull
    [] x.t = "arr" -> JArr([i \in DOMAIN x.v |-> ToJSON(x.v[i])])
    [] x.t = "obj" -> JObj([i \in DOMAIN x.v |-> P(x.v[i].k, ToJSON(x.v[i].v))])
    [] OTHER -> x

\* JSON.stringify(x, null, 2)
Stringify(x) == [ok |-> TRUE, val |-> ToJSON(x)]

\* A text JSON.parse rejects ("{invalid"), and the empty text of a fresh editor.
InvalidText == [ok |-> FALSE, val |-> JStr(<<"{", "i", "n", "v", "a", "l", "i", "d">>)]
EmptyText == [ok |-> FALSE, val |-> JStr(<<>>)]

(***************************************************************************)
(* Section detection: computeTableSections.                                *)
(***************************************************************************)
\* Case 1 / 2.a: Array.isArray(x) && x.length > 0 && typeof x[0] === "object"
ArrayOfObjects(x) == IsArray(x) /\ Len(x.v) > 0 /\ TypeofObject(x.v[1])

\* Case 2.b: x && typeof x === "object" && !Array.isArray(x)
PlainObject(x) == Truthy(x) /\ TypeofObject(x) /\ ~IsArray(x)

\* Object.values(value).some((v) => v && typeof v === "object")
hasObjectValues(value) == \E i \in DOMAIN value.v : TruthyObject(value.v[i].v)

\* A faulty variant of RootSection: the section's id is taken for its path.
RootSectionIdAsPath(rootJson) ==
  [id |-> "__root__", label |-> <<"Root", "array", Len(rootJson.v)>>,
   path |-> <<"__root__">>, json |-> rootJson]

RootSection(rootJson) ==
  [id |-> "__root__", label |-> <<"Root", "array", Len(rootJson.v)>>,
   path |-> <<>>, json |-> rootJson]

ArraySection(key, value) ==
  [id |-> key, label |-> <<key, "array", Len(value.v)>>, path |-> <<key>>, json |-> value]

ObjectSection(key, value) ==
  [id |-> key, label |-> <<key, "object", Len(value.v)>>, path |-> <<key>>, json |-> value]

\* The sections of one top-level property (none or one).
PropertySections(key, value) ==
  IF ArrayOfObjects(value) THEN <<ArraySection(key, value)>>
  ELSE IF PlainObject(value) /\ hasObjectValues(value) THEN <<ObjectSection(key, value)>>
  ELSE <<>>

RECURSIVE EntriesSections(_, _)
EntriesSections(props, i) ==
  IF i > Len(props) THEN <<>>
  ELSE PropertySections(props[i].k, props[i].v) \o EntriesSections(props, i + 1)

computeTableSections(rootJson) ==
  IF ~Truthy(rootJson) THEN <<>>
  ELSE (IF ArrayOfObjects(rootJson) THEN <<RootSection(rootJson)>> ELSE <<>>)
       \o (IF PlainObject(rootJson) THEN EntriesSections(rootJson.v, 1) ELSE <<>>)

(***************************************************************************)
(* Table projection: buildTableProjection.  A mapping entry is             *)
(* [parentPath, index, key]; index and key are <<>> for null, <<i>> for    *)
(* the array index i (from 0) and <<k>> for the property name k.           *)
(***************************************************************************)
IndexKeys == <<"0", "1", "2", "3">>

\* Object.entries(x): the properties of an object, the indexed elements of an array.
Entries(x) ==
  CASE x.t = "obj" -> x.v
    [] x.t = "arr" -> [i \in DOMAIN x.v |-> P(IndexKeys[i], x.v[i])]
    [] OTHER -> <<>>

\* { ...o, ...value }: the properties of value written over o, in order.
RECURSIVE Spread(_, _, _)
Spread(o, props, i) ==
  IF i > Len(props) THEN o ELSE Spread(SetProp(o, props[i].k, props[i].v), props, i + 1)

\* A faulty variant of KeyedRow: { ...value, __key: key }, the synthetic key last.
KeyedRowSyntheticLast(key, value) ==
  SetProp(Spread(JObj(<<>>), Entries(value), 1), "__key", JStr(KeyChars(key)))

\* { __key: key, ...value }
KeyedRow(key, value) == Spread(JObj(<<P("__key", JStr(KeyChars(key)))>>), Entries(value), 1)

\* A faulty variant of ArrayProjection: the entry's index is the row's position
\* among the rows, not the element's position in the array.
ArrayProjectionDisplayIndex(items, sectionPath, i) ==
  LET rows == SelectSeq(items, TruthyObject)
  IN  [rows |-> rows,
       mapping |-> [k \in DOMAIN rows |->
                      [parentPath |-> sectionPath, index |-> <<k - 1>>, key |-> <<>>]]]

RECURSIVE ArrayProjection(_, _, _)
ArrayProjection(items, sectionPath, i) ==
  IF i > Len(items) THEN [rows |-> <<>>, mapping |-> <<>>]
  ELSE LET rest == ArrayProjection(items, sectionPath, i + 1)
       IN  IF TruthyObject(items[i])
             THEN [rows |-> <<items[i]>> \o rest.rows,
                   mapping |-> <<[parentPath |-> sectionPath, index |-> <<i - 1>>,
                                  key |-> <<>>]>> \o rest.mapping]
             ELSE rest

RECURSIVE ObjectProjection(_, _, _)
ObjectProjection(props, sectionPath, i) ==
  IF i > Len(props) THEN [rows |-> <<>>, mapping |-> <<>>]
  ELSE LET rest == ObjectProjection(props, sectionPath, i + 1)
       IN  IF TruthyObject(props[i].v)
             THEN [rows |-> <<KeyedRow(props[i].k, props[i].v)>> \o rest.rows,
                   mapping |-> <<[parentPath |-> sectionPath, index |-> <<>>,
                                  key |-> <<props[i].k>>]>> \o rest.mapping]
             ELSE rest

buildTableProjection(json, sectionPath) ==
  IF IsArray(json) THEN ArrayProjection(json.v, sectionPath, 1)
  ELSE IF TruthyObject(json) THEN ObjectProjection(json.v, sectionPath, 1)
  ELSE [rows |-> <<>>, mapping |-> <<>>]

\* Array.from(colSet): every key of every row, in order of first appearance.
RECURSIVE AddKeys(_, _, _)
AddKeys(cols, props, i) ==
  IF i > Len(props) THEN cols
  ELSE AddKeys(IF props[i].k \in Range(cols) THEN cols ELSE Append(cols, props[i].k),
               props, i + 1)

RECURSIVE CollectColumns(_, _, _)
CollectColumns(cols, rows, i) ==
  IF i > Len(rows) THEN cols
  ELSE CollectColumns(IF TruthyObject(rows[i]) THEN AddKeys(cols, Entries(rows[i]), 1)
                      ELSE cols, rows, i + 1)

(***************************************************************************)
(* Cell write-back: parseCellValue and the assignment of applyCellUpdate.  *)
(***************************************************************************)
\* A faulty variant of parseCellValue: the test trimmed !== "" is missing, so the
\* empty text becomes Number("") = 0.
parseCellValueEmptyIsZero(value) ==
  IF value.t = "bool" THEN value
  ELSE LET trimmed == Trim(value.v)
           num == Number(trimmed)
       IN  IF trimmed = <<"t", "r", "u", "e">> THEN JBool(TRUE)
           ELSE IF trimmed = <<"f", "a", "l", "s", "e">> THEN JBool(FALSE)
           ELSE IF num.ok THEN num.num
           ELSE JStr(trimmed)

parseCellValue(value) ==
  IF value.t = "bool" THEN value
  ELSE LET trimmed == Trim(value.v)
           num == Number(trimmed)
       IN  IF trimmed = <<"t", "r", "u", "e">> THEN JBool(TRUE)
           ELSE IF trimmed = <<"f", "a", "l", "s", "e">> THEN JBool(FALSE)
           ELSE IF num.ok /\ trimmed # <<>> THEN num.num
           ELSE JStr(trimmed)


(***************************************************************************)
(* String(x), toLowerCase and includes, for the table's cells and filter.  *)
(***************************************************************************)
RECURSIVE StringOf(_)
RECURSIVE JoinFrom(_, _)
\* Array.prototype.join: null elements are written as the empty string.
JoinFrom(items, i) ==
  IF i > Len(items) THEN <<>>
  ELSE (IF i > 1 THEN <<",">> ELSE <<>>)
       \o (IF items[i].t = "null" THEN <<>> ELSE StringOf(items[i]))
       \o JoinFrom(items, i + 1)

StringOf(x) ==
  CASE x.t = "null" -> <<"n", "u", "l", "l">>
    [] x.t = "bool" -> IF x.v THEN <<"t", "r", "u", "e">> ELSE <<"f", "a", "l", "s", "e">>
    [] x.t = "num" -> NumToChars(x)
    [] x.t = "str" -> x.v
    [] x.t = "arr" -> JoinFrom(x.v, 1)
    [] x.t = "obj" -> <<"[", "o", "b", "j", "e", "c", "t", " ", "O", "b", "j", "e", "c", "t", "]">>

\* toLowerCase, for the capital letters the model's values contain.
LowerChar(c) ==
  CASE c = "I" -> "i"
    [] c = "M" -> "m"
    [] c = "O" -> "o"
    [] OTHER -> c
ToLowerCase(s) == [i \in DOMAIN s |-> LowerChar(s[i])]

\* s.includes(sub)
Includes(s, sub) ==
  \E i \in 0..(Len(s) - Len(sub)) : SubSeq(s, i + 1, i + Len(sub)) = sub

\* row[col], or <<>> for undefined; rows are objects or arrays.
Field(row, col) ==
  LET es == Entries(row)
  IN  IF \E i \in DOMAIN es : es[i].k = col
        THEN <<es[CHOOSE i \in DOMAIN es : es[i].k = col].v>>
        ELSE <<>>

\* val !== null && val !== undefined, for val = row[col]
Present(row, col) == Field(row, col) # <<>> /\ Field(row, col)[1].t # "null"

(***************************************************************************)
(* The table view.  The functions below transform a record of the view's   *)
(* state: tableSections, currentSection (<<>> for null, else <<section>>), *)
(* sectionSelect (tableSectionSelect.value) and sectionOptions (its option *)
(* values), tableRows, tableColumns, rowMapping, keySelect                 *)
(* (tableKeySelect.value) and keyOptions, and dom, the rendered table: a   *)
(* sequence of table rows [mi, cells], mi the mappingIndex bound in the    *)
(* row's handlers and cells[c] the cell of column tableColumns[c], with    *)
(* the column name its handler holds, its kind and what it shows; dom is   *)
(* <<>> when the container shows a message instead of a table.             *)
(***************************************************************************)
\* The row passes the filter of renderTable (lines 726-778).
Displayed(row, columns, filterText, selectedColumn) ==
  IF selectedColumn = "" /\ filterText = <<>> THEN TRUE
  ELSE LET hasValueInColumn ==
             selectedColumn = "" \/
               (Present(row, selectedColumn)
                /\ Trim(StringOf(Field(row, selectedColumn)[1])) # <<>>)
       IN  IF ~hasValueInColumn THEN FALSE
           ELSE IF filterText = <<>> THEN TRUE
           ELSE IF selectedColumn # ""
             THEN Present(row, selectedColumn)
                  /\ Includes(ToLowerCase(StringOf(Field(row, selectedColumn)[1])), filterText)
           ELSE \E c \in DOMAIN columns :
                  Present(row, columns[c])
                  /\ Includes(ToLowerCase(StringOf(Field(row, columns[c])[1])), filterText)

\* displayRowIndices, from 0.
RECURSIVE DisplayRowIndices(_, _, _, _, _)
DisplayRowIndices(rows, columns, filterText, selectedColumn, i) ==
  IF i > Len(rows) THEN <<>>
  ELSE (IF Displayed(rows[i], columns, filterText, selectedColumn) THEN <<i - 1>> ELSE <<>>)
       \o DisplayRowIndices(rows, columns, filterText, selectedColumn, i + 1)

\* One rendered cell (lines 811-833): a checkbox for a boolean, else editable text.
RenderCell(row, col) ==
  LET value == Field(row, col)
  IN  IF value # <<>> /\ value[1].t = "bool"
        THEN [col |-> col, kind |-> "checkbox", checked |-> value[1].v, text |-> <<>>]
        ELSE [col |-> col, kind |-> "text", checked |-> FALSE,
              text |-> IF Present(row, col) THEN StringOf(value[1]) ELSE <<>>]

\* tableFilterInput.value.trim().toLowerCase()
FilterText(input) == ToLowerCase(Trim(input))

\* A faulty variant of renderTable: a row's handlers hold the row's position in
\* the displayed list, not its index among the projected rows.
renderTableDisplayIndex(t, filterInput) ==
  IF t.tableRows = <<>> \/ t.tableColumns = <<>> THEN [t EXCEPT !.dom = <<>>]
  ELSE LET idx == DisplayRowIndices(t.tableRows, t.tableColumns, FilterText(filterInput),
                                    t.keySelect, 1)
       IN  [t EXCEPT !.dom =
              [k \in DOMAIN idx |->
                 [mi |-> k - 1,
                  cells |-> [c \in DOMAIN t.tableColumns |->
                               RenderCell(t.tableRows[idx[k] + 1], t.tableColumns[c])]]]]

renderTable(t, filterInput) ==
  IF t.tableRows = <<>> \/ t.tableColumns = <<>> THEN [t EXCEPT !.dom = <<>>]
  ELSE LET idx == DisplayRowIndices(t.tableRows, t.tableColumns, FilterText(filterInput),
                                    t.keySelect, 1)
       IN  [t EXCEPT !.dom =
              [k \in DOMAIN idx |->
                 [mi |-> idx[k],
                  cells |-> [c \in DOMAIN t.tableColumns |->
                               RenderCell(t.tableRows[idx[k] + 1], t.tableColumns[c])]]]]

updateColumnFilterOptions(t) ==
  [t EXCEPT !.keyOptions = t.tableColumns,
            !.keySelect = IF t.keySelect # "" /\ t.keySelect \in Range(t.tableColumns)
                            THEN t.keySelect ELSE ""]

FindSection(sections, id) ==
  IF \E i \in DOMAIN sections : sections[i].id = id
    THEN <<sections[CHOOSE i \in DOMAIN sections :
                      sections[i].id = id /\ \A j \in 1..(i - 1) : sections[j].id # id]>>
    ELSE <<>>

\* A faulty variant of renderCurrentSection: rowMapping is not reset with the rows
\* when no section is selected.
renderCurrentSectionKeepsMapping(t, filterInput) ==
  LET section == FindSection(t.tableSections, t.sectionSelect)
      cleared == [t EXCEPT !.dom = <<>>, !.tableRows = <<>>, !.tableColumns = <<>>]
  IN  IF t.sectionSelect = "" THEN cleared
      ELSE IF section = <<>> THEN cleared
      ELSE LET proj == buildTableProjection(section[1].json, section[1].path)
               t1 == [t EXCEPT !.currentSection = section,
                               !.tableRows = proj.rows,
                               !.rowMapping = proj.mapping,
                               !.tableColumns = CollectColumns(<<>>, proj.rows, 1)]
           IN  renderTable(updateColumnFilterOptions(t1), filterInput)

renderCurrentSection(t, filterInput) ==
  LET section == FindSection(t.tableSections, t.sectionSelect)
      cleared == [t EXCEPT !.dom = <<>>, !.tableRows = <<>>, !.tableColumns = <<>>,
                           !.rowMapping = <<>>]
  IN  IF t.sectionSelect = "" THEN cleared
      ELSE IF section = <<>> THEN cleared
      ELSE LET proj == buildTableProjection(section[1].json, section[1].path)
               t1 == [t EXCEPT !.currentSection = section,
                               !.tableRows = proj.rows,
                               !.rowMapping = proj.mapping,
                               !.tableColumns = CollectColumns(<<>>, proj.rows, 1)]
           IN  renderTable(updateColumnFilterOptions(t1), filterInput)

\* A faulty variant of fillTableSectionSelect: the select is not emptied before
\* the options are added.
fillTableSectionSelectAppends(t) ==
  LET previousSelection == t.sectionSelect
      t1 == [t EXCEPT !.sectionOptions =
               t.sectionOptions \o [i \in DOMAIN t.tableSections |-> t.tableSections[i].id]]
  IN  IF previousSelection # "" /\ FindSection(t.tableSections, previousSelection) # <<>>
        THEN [t1 EXCEPT !.sectionSelect = previousSelection,
                        !.currentSection = FindSection(t.tableSections, previousSelection)]
      ELSE IF Len(t.tableSections) > 0
        THEN [t1 EXCEPT !.sectionSelect = t.tableSections[1].id,
                        !.currentSection = <<t.tableSections[1]>>]
      ELSE [t1 EXCEPT !.sectionSelect = "", !.currentSection = <<>>]

fillTableSectionSelect(t) ==
  LET previousSelection == t.sectionSelect
      t1 == [t EXCEPT !.sectionOptions = [i \in DOMAIN t.tableSections |-> t.tableSections[i].id]]
  IN  IF previousSelection # "" /\ FindSection(t.tableSections, previousSelection) # <<>>
        THEN [t1 EXCEPT !.sectionSelect = previousSelection,
                        !.currentSection = FindSection(t.tableSections, previousSelection)]
      ELSE IF Len(t.tableSections) > 0
        THEN [t1 EXCEPT !.sectionSelect = t.tableSections[1].id,
                        !.currentSection = <<t.tableSections[1]>>]
      ELSE [t1 EXCEPT !.sectionSelect = "", !.currentSection = <<>>]

updateTableSectionsAndRender(t, doc, filterInput) ==
  IF ~Truthy(doc)
    THEN [t EXCEPT !.tableSections = <<>>, !.currentSection = <<>>, !.dom = <<>>]
    ELSE renderCurrentSection(
           fillTableSectionSelect([t EXCEPT !.tableSections = computeTableSections(doc)]),
           filterInput)


(***************************************************************************)
(* applyCellUpdate's walk and assignment.                                  *)
(***************************************************************************)
\* parent = parent[key] for each key of the path; <<>> when a step is undefined.
RECURSIVE WalkPath(_, _)
WalkPath(x, path) ==
  IF path = <<>> THEN <<x>>
  ELSE LET c == Field(x, Head(path))
       IN  IF c = <<>> THEN <<>> ELSE WalkPath(c[1], Tail(path))

\* The property name a mapping entry adds to its parentPath: its index or its key.
LastStep(info) ==
  IF info.index # <<>> THEN <<IndexKeys[info.index[1] + 1]>>
  ELSE IF info.key # <<>> THEN <<info.key[1]>>
  ELSE <<>>

\* parent[info.index] or parent[info.key]: <<>> when it cannot be reached.
Target(doc, info) == WalkPath(doc, info.parentPath \o LastStep(info))

\* x[k] = new, for an object x or an array x with the index k in range.
PutField(x, k, new) ==
  CASE x.t = "obj" -> SetProp(x, k, new)
    [] x.t = "arr" /\ \E i \in DOMAIN x.v : IndexKeys[i] = k ->
         [x EXCEPT !.v[CHOOSE i \in DOMAIN x.v : IndexKeys[i] = k] = new]

\* The document after the object at path has been changed in place to new.
RECURSIVE PutAtPath(_, _, _)
PutAtPath(doc, path, new) ==
  IF path = <<>> THEN new
  ELSE PutField(doc, Head(path), PutAtPath(Field(doc, Head(path))[1], Tail(path), new))

\* The value applyCellUpdate stores (line 887 / 890).
StoredValue(newValue) == parseCellValue(newValue)

\* A faulty variant of AssignCell: the row is replaced by an object of one field.
AssignCellWholeRow(doc, info, column, newValue) ==
  PutAtPath(doc, info.parentPath \o LastStep(info),
            JObj(<<P(column, StoredValue(newValue))>>))

\* workingJson after lines 880-891, for an entry whose target is an object.
AssignCell(doc, info, column, newValue) ==
  PutAtPath(doc, info.parentPath \o LastStep(info),
            PutField(Target(doc, info)[1], column, StoredValue(newValue)))

(***************************************************************************)
(* Bounds and input pools.                                                 *)
(***************************************************************************)
\* Requests the page issues in a run, the load on DOMContentLoaded included.
MaxRequests == 2
\* Cell edits and row edits in a run.
MaxEdits == 1
\* File imports, typings in the raw-text editor and changes of the section, the
\* filter text or the filter column in a run.
MaxInputs == 1

Chars3p5 == <<" ", "3", ".", "5", " ">>
CharsTrue == <<"t", "r", "u", "e">>
CharsInfinity == <<"I", "n", "f", "i", "n", "i", "t", "y">>
CharsX == <<"x">>

\* What the user types into a cell before leaving it.
RawValues == {Chars3p5, CharsInfinity}

\* What the user types into the filter box.
FilterInputs == {<<>>, CharsX}

DocItems ==
  JObj(<<P("items", JArr(<<JObj(<<P("a", JInt(1)), P("b", JStr(CharsX))>>), JInt(7),
                           JObj(<<P("a", JInt(2))>>)>>)),
         P("n", JInt(5))>>)
DocMeshes ==
  JObj(<<P("Meshes", JObj(<<P("m1", JObj(<<P("visible", JBool(TRUE))>>)),
                            P("m2", JObj(<<P("visible", JBool(FALSE))>>))>>))>>)
DocBoth ==
  JObj(<<P("Meshes", JObj(<<P("m1", JObj(<<P("visible", JBool(TRUE))>>))>>)),
         P("items", JArr(<<JNull, JObj(<<P("a", JInt(1))>>)>>))>>)
DocRoot == JArr(<<JObj(<<P("a", JInt(1))>>), JNull, JObj(<<P("b", JStr(CharsX))>>)>>)
DocScalars == JArr(<<JInt(1), JInt(2), JInt(3)>>)
RowTyped == JObj(<<P("a", JInt(9)), P("__key", JStr(CharsX))>>)

\* data.json when the server starts.
InitialFiles == {Stringify(DocItems), Stringify(DocMeshes)}

\* What the user can give the file input: [chosen, name ends in .json, readable, content].
File(chosen, json, readable, content) ==
  [chosen |-> chosen, json |-> json, readable |-> readable, content |-> content]
Files ==
  {File(TRUE, TRUE, TRUE, Stringify(DocBoth)),
   File(TRUE, TRUE, TRUE, Stringify(DocRoot)),
   File(TRUE, TRUE, TRUE, Stringify(JNull)),
   File(TRUE, TRUE, TRUE, InvalidText),
   File(TRUE, FALSE, TRUE, Stringify(DocRoot))}

\* What the user can leave in the raw-text editor after typing.
TypedTexts == {InvalidText, Stringify(RowTyped), Stringify(DocScalars)}


(***************************************************************************)
(* State.                                                                  *)
(***************************************************************************)
VARIABLES
  originalJson,    \* script.js: JSON as loaded (JNull before the first load)
  workingJson,     \* script.js: the Document the user edits
  editor,          \* editor.value, a JSON text
  message,         \* the status line: [text, type]
  tableSections, currentSection, tableRows, tableColumns, rowMapping,
  sectionSelect,   \* tableSectionSelect.value
  sectionOptions,  \* the option values of tableSectionSelect, the default "" apart
  filterInput,     \* tableFilterInput.value
  keySelect,       \* tableKeySelect.value
  keyOptions,      \* the option values of tableKeySelect, the default "" apart
  dom,             \* the rendered table in tableContainer
  rowEditMode, selectedRowInfo, fullJsonBackup,   \* the row-edit state
  lastParsedJson,  \* script.js: the last document saved or imported
  dataFile,        \* server.js: the content of data.json, a JSON text
  net,             \* the requests in flight and their answers
  nreq, nedit, ninput,   \* how many requests, edits and other inputs so far
  lastOp,          \* the step that ran last, with the arguments of a page handler
  probe            \* [fn, arg, out, done]: a function applied to a drawn input

vars ==
  <<originalJson, workingJson, editor, message, tableSections, currentSection, tableRows,
    tableColumns, rowMapping, sectionSelect, sectionOptions, filterInput, keySelect,
    keyOptions, dom, rowEditMode, selectedRowInfo, fullJsonBackup, lastParsedJson,
    dataFile, net, nreq, nedit, ninput, lastOp, probe>>

serverVars == <<dataFile>>
counters == <<nreq, nedit, ninput>>
rowEditVars == <<rowEditMode, selectedRowInfo, fullJsonBackup>>

\* The client's document and view as one record, for the functions above.
Client ==
  [originalJson |-> originalJson, workingJson |-> workingJson, editor |-> editor,
   message |-> message, tableSections |-> tableSections,
   currentSection |-> currentSection, tableRows |-> tableRows,
   tableColumns |-> tableColumns, rowMapping |-> rowMapping,
   sectionSelect |-> sectionSelect, sectionOptions |-> sectionOptions,
   keySelect |-> keySelect, keyOptions |-> keyOptions, dom |-> dom]

SetClient(c) ==
  /\ originalJson' = c.originalJson
  /\ workingJson' = c.workingJson
  /\ editor' = c.editor
  /\ message' = c.message
  /\ tableSections' = c.tableSections
  /\ currentSection' = c.currentSection
  /\ tableRows' = c.tableRows
  /\ tableColumns' = c.tableColumns
  /\ rowMapping' = c.rowMapping
  /\ sectionSelect' = c.sectionSelect
  /\ sectionOptions' = c.sectionOptions
  /\ keySelect' = c.keySelect
  /\ keyOptions' = c.keyOptions
  /\ dom' = c.dom

Msg(text, type) == [text |-> text, type |-> type]
Op(name) == [op |-> name, row |-> 0, col |-> "", raw |-> JNull]
NoProbe == [fn |-> "none", arg |-> JNull, out |-> <<>>, done |-> FALSE]

\* loadFromServer on DOMContentLoaded has sent its request; nothing is loaded yet.
Request(id, kind, body, parsed, doc) ==
  [id |-> id, kind |-> kind, stage |-> "sent", status |-> 0, body |-> body,
   parsed |-> parsed, issuedDoc |-> doc]

InitPage ==
  /\ originalJson = JNull
  /\ workingJson = JNull
  /\ editor = EmptyText
  /\ message = Msg("Loading JSON from server...", "info")
  /\ tableSections = <<>>
  /\ currentSection = <<>>
  /\ tableRows = <<>>
  /\ tableColumns = <<>>
  /\ rowMapping = <<>>
  /\ sectionSelect = ""
  /\ sectionOptions = <<>>
  /\ filterInput = <<>>
  /\ keySelect = ""
  /\ keyOptions = <<>>
  /\ dom = <<>>
  /\ rowEditMode = FALSE
  /\ selectedRowInfo = <<>>
  /\ fullJsonBackup = <<>>
  /\ lastParsedJson = JNull
  /\ dataFile \in InitialFiles
  /\ net = {Request(1, "GET", EmptyText, JNull, JNull)}
  /\ nreq = 1
  /\ nedit = 0
  /\ ninput = 0
  /\ lastOp = Op("DOMContentLoaded")

Init == InitPage /\ probe = NoProbe

(***************************************************************************)
(* applyCellUpdate (lines 875-896) on the client record.  The mutation is  *)
(* in place: every reference into the document sees it.  The sections'     *)
(* json and the rows of an array-backed projection are such references;    *)
(* the rows of an object-backed projection are copies ({__key, ...value})  *)
(* and keep their old content.                                             *)
(***************************************************************************)
\* What a reference to the object at path shows after the mutation.
Deref(doc, path, old) == LET x == WalkPath(doc, path) IN IF x = <<>> THEN old ELSE x[1]

AliasedSection(doc, s) == [s EXCEPT !.json = Deref(doc, s.path, s.json)]

AliasedRows(doc, rows, mapping) ==
  [j \in DOMAIN rows |->
     IF mapping[j].index # <<>>
       THEN Deref(doc, mapping[j].parentPath \o LastStep(mapping[j]), rows[j])
       ELSE rows[j]]

Mutated(c, doc) ==
  [c EXCEPT !.workingJson = doc,
            !.tableSections = [i \in DOMAIN c.tableSections |->
                                 AliasedSection(doc, c.tableSections[i])],
            !.currentSection = [i \in DOMAIN c.currentSection |->
                                  AliasedSection(doc, c.currentSection[i])],
            !.tableRows = AliasedRows(doc, c.tableRows, c.rowMapping)]

\* A faulty variant of applyCellUpdate: without a mapping entry or a Document the
\* assignment is skipped, but the editor and the message are still written.
applyCellUpdateLateGuard(c, rowIndex, column, newValue) ==
  IF rowIndex + 1 \notin DOMAIN c.rowMapping \/ ~Truthy(c.workingJson)
    THEN [c EXCEPT !.editor = Stringify(c.workingJson),
                   !.message = Msg("Change applied (not saved to server yet).", "info")]
  ELSE LET info == c.rowMapping[rowIndex + 1]
           target == Target(c.workingJson, info)
       IN  IF LastStep(info) # <<>> /\ (target = <<>> \/ target[1].t = "null")
             THEN c
           ELSE LET doc == IF LastStep(info) # <<>> /\ TruthyObject(target[1])
                             THEN AssignCell(c.workingJson, info, column, newValue)
                             ELSE c.workingJson
                    c1 == Mutated(c, doc)
                IN  [c1 EXCEPT !.editor = Stringify(doc),
                               !.message = Msg("Change applied (not saved to server yet).",
                                               "info")]

applyCellUpdate(c, rowIndex, column, newValue) ==
  IF rowIndex + 1 \notin DOMAIN c.rowMapping \/ ~Truthy(c.workingJson) THEN c
  ELSE LET info == c.rowMapping[rowIndex + 1]
           target == Target(c.workingJson, info)
       IN  IF LastStep(info) # <<>> /\ (target = <<>> \/ target[1].t = "null")
             THEN c   \* TypeError: the handler stops before it changed anything
           ELSE LET doc == IF LastStep(info) # <<>> /\ TruthyObject(target[1])
                             THEN AssignCell(c.workingJson, info, column, newValue)
                             ELSE c.workingJson
                    c1 == Mutated(c, doc)
                IN  [c1 EXCEPT !.editor = Stringify(doc),
                               !.message = Msg("Change applied (not saved to server yet).",
                                               "info")]


(***************************************************************************)
(* Load: loadFromServer (lines 381-409), and GET /api/data (server.js      *)
(* lines 18-27).                                                           *)
(***************************************************************************)
Ok(m) == m.stage = "answered" /\ m.status = 200

\* Click on "load": lines 383-385, up to the await.
LoadClick ==
  /\ nreq < MaxRequests
  /\ nreq' = nreq + 1
  /\ net' = net \cup {Request(nreq + 1, "GET", EmptyText, JNull, workingJson)}
  /\ message' = Msg("Loading JSON from server...", "info")
  /\ lastOp' = Op("loadFromServer")
  /\ UNCHANGED <<originalJson, workingJson, editor, tableSections, currentSection,
                 tableRows, tableColumns, rowMapping, sectionSelect, sectionOptions,
                 filterInput, keySelect, keyOptions, dom, rowEditVars, lastParsedJson,
                 serverVars, nedit, ninput, probe>>

Answer(m, status, body) == [m EXCEPT !.stage = "answered", !.status = status, !.body = body]

ErrorBody == Stringify(JObj(<<P("error", JBool(TRUE))>>))
SuccessBody == Stringify(JObj(<<P("success", JBool(TRUE))>>))

\* app.get("/api/data")
ServerGet(m) ==
  /\ m.kind = "GET" /\ m.stage = "sent"
  /\ net' = (net \ {m}) \cup
       {IF dataFile.ok THEN Answer(m, 200, Stringify(dataFile.val))
        ELSE Answer(m, 500, ErrorBody)}
  /\ lastOp' = Op("server")
  /\ UNCHANGED <<originalJson, workingJson, editor, message, tableSections,
                 currentSection, tableRows, tableColumns, rowMapping, sectionSelect,
                 sectionOptions, filterInput, keySelect, keyOptions, dom, rowEditVars,
                 lastParsedJson, serverVars, counters, probe>>

\* fetch rejects: the request or its answer is lost.
NetworkFail(m) ==
  /\ m.stage \in {"sent", "answered"}
  /\ net' = (net \ {m}) \cup {[m EXCEPT !.stage = "failed"]}
  /\ lastOp' = Op("network")
  /\ UNCHANGED <<originalJson, workingJson, editor, message, tableSections,
                 currentSection, tableRows, tableColumns, rowMapping, sectionSelect,
                 sectionOptions, filterInput, keySelect, keyOptions, dom, rowEditVars,
                 lastParsedJson, serverVars, counters, probe>>

\* Lines 394-403: the client record after a successful load or import of data.
Loaded(c, data, text) ==
  LET doc == ToJSON(data)
      c1 == [c EXCEPT !.originalJson = data,
                      !.workingJson = doc,
                      !.editor = Stringify(doc),
                      !.message = Msg(text, "success")]
  IN  updateTableSectionsAndRender(c1, doc, filterInput)

\* A faulty variant of LoadResponse: a failed load empties the Document.
LoadResponseClearsOnFailure(m) ==
  /\ m.kind = "GET" /\ m.stage \in {"answered", "failed"}
  /\ net' = net \ {m}
  /\ IF Ok(m) /\ m.body.ok
       THEN SetClient(Loaded(Client, m.body.val, "JSON loaded from server."))
       ELSE SetClient([Client EXCEPT
              !.workingJson = JNull,
              !.message = Msg("Failed to load JSON from server.", "error")])
  /\ lastOp' = [Op("loadFromServer.response") EXCEPT !.row = m.id]
  /\ UNCHANGED <<filterInput, rowEditVars, lastParsedJson, serverVars, counters, probe>>

\* loadFromServer resumes with the answer: lines 387-408.
LoadResponse(m) ==
  /\ m.kind = "GET" /\ m.stage \in {"answered", "failed"}
  /\ net' = net \ {m}
  /\ IF Ok(m) /\ m.body.ok
       THEN SetClient(Loaded(Client, m.body.val, "JSON loaded from server."))
       ELSE SetClient([Client EXCEPT
              !.message = Msg("Failed to load JSON from server.", "error")])
  /\ lastOp' = [Op("loadFromServer.response") EXCEPT !.row = m.id]
  /\ UNCHANGED <<filterInput, rowEditVars, lastParsedJson, serverVars, counters, probe>>

(***************************************************************************)
(* Save: saveToServer (lines 415-465), and POST /api/data (server.js       *)
(* lines 30-47).                                                           *)
(***************************************************************************)
\* A faulty variant of SaveClick: the guard of line 417 is missing.
SaveClickUnguarded ==
  /\ \/ /\ ~editor.ok
        /\ message' = Msg("Invalid JSON: please check commas, quotes and structure.", "error")
        /\ UNCHANGED <<net, nreq>>
     \/ /\ editor.ok
        /\ nreq < MaxRequests
        /\ nreq' = nreq + 1
        /\ net' = net \cup {Request(nreq + 1, "POST", Stringify(editor.val), editor.val,
                                     workingJson)}
        /\ message' = Msg("Sending data to server...", "info")
  /\ lastOp' = Op("saveToServer")
  /\ UNCHANGED <<originalJson, workingJson, editor, tableSections, currentSection,
                 tableRows, tableColumns, rowMapping, sectionSelect, sectionOptions,
                 filterInput, keySelect, keyOptions, dom, rowEditVars, lastParsedJson,
                 serverVars, nedit, ninput, probe>>

\* A faulty variant of SaveClick: the text is sent as it is, without JSON.parse
\* (lines 425-432 missing).
SaveClickUnparsed ==
  /\ \/ /\ rowEditMode
        /\ message' = Msg("You are currently editing a single entry. Apply or cancel the row edit before saving the full JSON.", "error")
        /\ UNCHANGED <<net, nreq>>
     \/ /\ ~rowEditMode
        /\ nreq < MaxRequests
        /\ nreq' = nreq + 1
        /\ net' = net \cup {Request(nreq + 1, "POST", editor, editor.val, workingJson)}
        /\ message' = Msg("Sending data to server...", "info")
  /\ lastOp' = Op("saveToServer")
  /\ UNCHANGED <<originalJson, workingJson, editor, tableSections, currentSection,
                 tableRows, tableColumns, rowMapping, sectionSelect, sectionOptions,
                 filterInput, keySelect, keyOptions, dom, rowEditVars, lastParsedJson,
                 serverVars, nedit, ninput, probe>>

\* Click on "save": lines 417-447, up to the await.
SaveClick ==
  /\ \/ /\ rowEditMode
        /\ message' = Msg("You are currently editing a single entry. Apply or cancel the row edit before saving the full JSON.", "error")
        /\ UNCHANGED <<net, nreq>>
     \/ /\ ~rowEditMode /\ ~editor.ok
        /\ message' = Msg("Invalid JSON: please check commas, quotes and structure.", "error")
        /\ UNCHANGED <<net, nreq>>
     \/ /\ ~rowEditMode /\ editor.ok
        /\ nreq < MaxRequests
        /\ nreq' = nreq + 1
        /\ net' = net \cup {Request(nreq + 1, "POST", Stringify(editor.val), editor.val,
                                     workingJson)}
        /\ message' = Msg("Sending data to server...", "info")
  /\ lastOp' = Op("saveToServer")
  /\ UNCHANGED <<originalJson, workingJson, editor, tableSections, currentSection,
                 tableRows, tableColumns, rowMapping, sectionSelect, sectionOptions,
                 filterInput, keySelect, keyOptions, dom, rowEditVars, lastParsedJson,
                 serverVars, nedit, ninput, probe>>

\* A faulty variant of Refused: the test newData === null is missing.
RefusedTypeofOnly(newData) == ~TypeofObject(newData)

\* typeof newData !== "object" || newData === null (express.json has already
\* refused, with 400, a body that is neither an object nor an array).
Refused(newData) == ~TypeofObject(newData) \/ newData.t = "null"

\* app.post("/api/data"): the write succeeds, fails leaving the file as it was, or
\* fails after the file was truncated.
ServerPost(m) ==
  /\ m.kind = "POST" /\ m.stage = "sent"
  /\ IF ~m.body.ok \/ Refused(m.body.val)
       THEN /\ net' = (net \ {m}) \cup {Answer(m, 400, ErrorBody)}
            /\ UNCHANGED dataFile
       ELSE \/ /\ dataFile' = Stringify(m.body.val)
               /\ net' = (net \ {m}) \cup {Answer(m, 200, SuccessBody)}
            \/ /\ dataFile' \in {dataFile, EmptyText}
               /\ net' = (net \ {m}) \cup {Answer(m, 500, ErrorBody)}
  /\ lastOp' = Op("server")
  /\ UNCHANGED <<originalJson, workingJson, editor, message, tableSections,
                 currentSection, tableRows, tableColumns, rowMapping, sectionSelect,
                 sectionOptions, filterInput, keySelect, keyOptions, dom, rowEditVars,
                 lastParsedJson, counters, probe>>

\* result.success
Success(body) == body.ok /\ body.val.t = "obj" /\ HasKey(body.val, "success")
                 /\ Truthy(GetProp(body.val, "success"))

\* saveToServer resumes with the answer: lines 449-464.
SaveResponse(m) ==
  /\ m.kind = "POST" /\ m.stage \in {"answered", "failed"}
  /\ net' = net \ {m}
  /\ IF Ok(m) /\ Success(m.body)
       THEN /\ lastParsedJson' = m.parsed
            /\ message' = Msg("JSON successfully saved on the server.", "success")
       ELSE /\ message' = IF Ok(m)
                 THEN Msg("The server returned an error while saving JSON.", "error")
                 ELSE Msg("Failed to save JSON on the server.", "error")
            /\ UNCHANGED lastParsedJson
  /\ lastOp' = [Op("saveToServer.response") EXCEPT !.row = m.id]
  /\ UNCHANGED <<originalJson, workingJson, editor, tableSections, currentSection,
                 tableRows, tableColumns, rowMapping, sectionSelect, sectionOptions,
                 filterInput, keySelect, keyOptions, dom, rowEditVars, serverVars,
                 counters, probe>>


(***************************************************************************)
(* File import: handleFileChange and its FileReader callbacks (lines       *)
(* 471-515).  The change handler itself changes nothing but the message;   *)
(* the document changes in reader.onload, which is the step modelled.      *)
(***************************************************************************)
\* The first copy of handleFileChange (lines 159-163) also leaves row-edit mode
\* when a file is imported.
FileImportReset(parsed) ==
  /\ lastParsedJson' = parsed
  /\ rowEditMode' = FALSE
  /\ selectedRowInfo' = <<>>
  /\ fullJsonBackup' = <<>>

\* A faulty variant of Importable: the name of the file is not looked at.
ImportableAnyName(f) == f.chosen /\ f.readable /\ f.content.ok

\* The file passes the checks of lines 472-480 and JSON.parse accepts its content.
Importable(f) == f.chosen /\ f.json /\ f.readable /\ f.content.ok

handleFileChange(f) ==
  /\ ninput < MaxInputs
  /\ ninput' = ninput + 1
  /\ IF Importable(f)
       THEN /\ SetClient(Loaded(Client, f.content.val, "JSON loaded from file."))
            /\ FileImportReset(f.content.val)
       ELSE /\ SetClient([Client EXCEPT !.message =
                 IF ~f.chosen THEN Msg("No file selected.", "info")
                 ELSE IF ~f.json THEN Msg("Please select a .json file.", "error")
                 ELSE IF ~f.readable
                   THEN Msg("An error occurred while reading the file.", "error")
                 ELSE Msg("The selected file does not contain valid JSON.", "error")])
            /\ UNCHANGED <<rowEditVars, lastParsedJson>>
  /\ lastOp' = [Op("handleFileChange") EXCEPT !.raw = f,
                                              !.row = IF Importable(f) THEN 1 ELSE 0]
  /\ UNCHANGED <<filterInput, serverVars, net, nreq, nedit, probe>>

(***************************************************************************)
(* The other listeners of lines 934-947, and typing in the editor.         *)
(***************************************************************************)
\* A faulty variant of EditorInput: text that parses replaces the Document.
EditorInputReparses(text) ==
  /\ ninput < MaxInputs
  /\ ninput' = ninput + 1
  /\ text # editor
  /\ editor' = text
  /\ workingJson' = IF text.ok THEN text.val ELSE workingJson
  /\ lastOp' = Op("editor.input")
  /\ UNCHANGED <<originalJson, message, tableSections, currentSection,
                 tableRows, tableColumns, rowMapping, sectionSelect, sectionOptions,
                 filterInput, keySelect, keyOptions, dom, rowEditVars, lastParsedJson,
                 serverVars, net, nreq, nedit, probe>>

\* The user types in the raw-text editor: no listener runs.
EditorInput(text) ==
  /\ ninput < MaxInputs
  /\ ninput' = ninput + 1
  /\ text # editor
  /\ editor' = text
  /\ lastOp' = Op("editor.input")
  /\ UNCHANGED <<originalJson, workingJson, message, tableSections, currentSection,
                 tableRows, tableColumns, rowMapping, sectionSelect, sectionOptions,
                 filterInput, keySelect, keyOptions, dom, rowEditVars, lastParsedJson,
                 serverVars, net, nreq, nedit, probe>>

\* refreshTableBtn click
RefreshClick ==
  /\ SetClient(updateTableSectionsAndRender(Client, workingJson, filterInput))
  /\ lastOp' = Op("updateTableSectionsAndRender")
  /\ UNCHANGED <<filterInput, rowEditVars, lastParsedJson, serverVars, net, counters, probe>>

\* tableSectionSelect change: the user picks another option.
SectionSelectChange(id) ==
  /\ ninput < MaxInputs
  /\ ninput' = ninput + 1
  /\ id # sectionSelect
  /\ SetClient(renderCurrentSection([Client EXCEPT !.sectionSelect = id], filterInput))
  /\ lastOp' = [Op("renderCurrentSection") EXCEPT !.col = id]
  /\ UNCHANGED <<filterInput, rowEditVars, lastParsedJson, serverVars, net, nreq, nedit, probe>>

\* tableFilterInput input
FilterInput(text) ==
  /\ ninput < MaxInputs
  /\ ninput' = ninput + 1
  /\ text # filterInput
  /\ filterInput' = text
  /\ SetClient(renderTable(Client, text))
  /\ lastOp' = Op("renderTable.filter")
  /\ UNCHANGED <<rowEditVars, lastParsedJson, serverVars, net, nreq, nedit, probe>>

\* tableKeySelect change
KeySelectChange(col) ==
  /\ ninput < MaxInputs
  /\ ninput' = ninput + 1
  /\ col # keySelect
  /\ SetClient(renderTable([Client EXCEPT !.keySelect = col], filterInput))
  /\ lastOp' = [Op("renderTable.key") EXCEPT !.col = col]
  /\ UNCHANGED <<filterInput, rowEditVars, lastParsedJson, serverVars, net, nreq, nedit, probe>>

(***************************************************************************)
(* The cell handlers renderTable installs (lines 818-820 and 830-832).     *)
(***************************************************************************)
\* A checkbox is toggled.
CellCheckboxChange(k, c) ==
  /\ nedit < MaxEdits
  /\ nedit' = nedit + 1
  /\ dom[k].cells[c].kind = "checkbox"
  /\ LET checked == ~dom[k].cells[c].checked
     IN  /\ SetClient(applyCellUpdate([Client EXCEPT !.dom[k].cells[c].checked = checked],
                                      dom[k].mi, dom[k].cells[c].col, JBool(checked)))
         /\ lastOp' = [op |-> "applyCellUpdate", row |-> dom[k].mi,
                       col |-> dom[k].cells[c].col, raw |-> JBool(checked)]
  /\ UNCHANGED <<filterInput, rowEditVars, lastParsedJson, serverVars, net, nreq, ninput, probe>>

\* An editable cell loses focus, holding text (what it showed, or what was typed).
CellBlur(k, c, text) ==
  /\ nedit < MaxEdits
  /\ nedit' = nedit + 1
  /\ dom[k].cells[c].kind = "text"
  /\ SetClient(applyCellUpdate([Client EXCEPT !.dom[k].cells[c].text = text],
                               dom[k].mi, dom[k].cells[c].col, JStr(text)))
  /\ lastOp' = [op |-> "applyCellUpdate", row |-> dom[k].mi,
                col |-> dom[k].cells[c].col, raw |-> JStr(text)]
  /\ UNCHANGED <<filterInput, rowEditVars, lastParsedJson, serverVars, net, nreq, ninput, probe>>


(***************************************************************************)
(* Row-edit mode.  script.js reads rowEditMode (line 417) and resets it,   *)
(* selectedRowInfo and fullJsonBackup (lines 161-163); the handlers that   *)
(* enter, apply and cancel a row edit are not in src/ and follow sections  *)
(* 4.3 and 5 of the specification.                                         *)
(***************************************************************************)
RemoveProp(o, k) == JObj(SelectSeq(o.v, LAMBDA p : p.k # k))

\* The user opens the k-th displayed row for editing as a whole.
EnterRowEdit(k) ==
  /\ ~rowEditMode
  /\ nedit < MaxEdits
  /\ nedit' = nedit + 1
  /\ Truthy(workingJson)
  /\ rowEditMode' = TRUE
  /\ selectedRowInfo' = <<rowMapping[dom[k].mi + 1]>>
  /\ fullJsonBackup' = <<editor>>
  /\ editor' = Stringify(tableRows[dom[k].mi + 1])
  /\ message' = Msg("Editing a single entry.", "info")
  /\ lastOp' = [Op("enterRowEdit") EXCEPT !.row = dom[k].mi]
  /\ UNCHANGED <<originalJson, workingJson, tableSections, currentSection, tableRows,
                 tableColumns, rowMapping, sectionSelect, sectionOptions, filterInput,
                 keySelect, keyOptions, dom, lastParsedJson, serverVars, net, nreq, ninput, probe>>

\* The replacement row is written over the target row; __key is dropped for an
\* object-backed row; the text and the view are regenerated.
ApplyRowEdit ==
  /\ rowEditMode
  /\ LET info == selectedRowInfo[1]
         usable == editor.ok /\ editor.val.t = "obj" /\ Truthy(workingJson)
                   /\ Target(workingJson, info) # <<>>
         row == IF info.key # <<>> THEN RemoveProp(editor.val, "__key") ELSE editor.val
         doc == PutAtPath(workingJson, info.parentPath \o LastStep(info), row)
     IN  IF usable
           THEN /\ SetClient(updateTableSectionsAndRender(
                     [Client EXCEPT !.workingJson = doc, !.editor = Stringify(doc),
                                    !.message = Msg("Row edit applied.", "success")],
                     doc, filterInput))
                /\ rowEditMode' = FALSE
                /\ selectedRowInfo' = <<>>
                /\ fullJsonBackup' = <<>>
           ELSE /\ SetClient([Client EXCEPT !.message = Msg("Row edit rejected.", "error")])
                /\ UNCHANGED rowEditVars
  /\ lastOp' = Op("applyRowEdit")
  /\ UNCHANGED <<filterInput, lastParsedJson, serverVars, net, counters, probe>>

\* The backup text is restored exactly.
CancelRowEdit ==
  /\ rowEditMode
  /\ editor' = fullJsonBackup[1]
  /\ rowEditMode' = FALSE
  /\ selectedRowInfo' = <<>>
  /\ fullJsonBackup' = <<>>
  /\ message' = Msg("Row edit cancelled.", "info")
  /\ lastOp' = Op("cancelRowEdit")
  /\ UNCHANGED <<originalJson, workingJson, tableSections, currentSection, tableRows,
                 tableColumns, rowMapping, sectionSelect, sectionOptions, filterInput,
                 keySelect, keyOptions, dom, lastParsedJson, serverVars, net, counters,
                 probe>>

(***************************************************************************)
(* The program: the page and the server.                                   *)
(***************************************************************************)
Next ==
  \/ LoadClick
  \/ \E m \in net : ServerGet(m)
  \/ \E m \in net : NetworkFail(m)
  \/ \E m \in net : LoadResponse(m)
  \/ SaveClick
  \/ \E m \in net : ServerPost(m)
  \/ \E m \in net : SaveResponse(m)
  \/ \E f \in Files : handleFileChange(f)
  \/ \E text \in TypedTexts : EditorInput(text)
  \/ RefreshClick
  \/ \E id \in Range(sectionOptions) \cup {""} : SectionSelectChange(id)
  \/ \E text \in FilterInputs : FilterInput(text)
  \/ \E col \in Range(keyOptions) \cup {""} : KeySelectChange(col)
  \/ \E k \in DOMAIN dom : \E c \in DOMAIN dom[k].cells : CellCheckboxChange(k, c)
  \/ \E k \in DOMAIN dom : \E c \in DOMAIN dom[k].cells :
       \E text \in RawValues \cup {dom[k].cells[c].text} : CellBlur(k, c, text)
  \/ \E k \in DOMAIN dom : EnterRowEdit(k)
  \/ ApplyRowEdit
  \/ CancelRowEdit

Spec == Init /\ [][Next]_vars


(***************************************************************************)
(* computeTableSections applied to a drawn document.                       *)
(***************************************************************************)
\* The longest array of a drawn document.
MaxLen == 2

SeqsUpTo(S, n) == UNION {[1..k -> S] : k \in 0..n}

\* Arrays of up to MaxLen elements of S.
ArraysOf(S) == {JArr(items) : items \in SeqsUpTo(S, MaxLen)}

\* Objects whose property names are a prefix of keys, with values of S.
ObjectsOf(keys, S) ==
  UNION {{JObj([i \in 1..k |-> P(keys[i], f[i])]) : f \in [1..k -> S]} : k \in 0..Len(keys)}

\* Scalars, falsy and truthy.
DrawnScalars ==
  {JNull, JBool(FALSE), JBool(TRUE), JInt(0), JInt(1), JStr(<<>>), JStr(CharsX)}

\* What an array or an object of a drawn document holds.
DrawnElements == {JNull, JInt(1), JObj(<<>>), JArr(<<>>)}

\* The values of a drawn document's top-level properties.
DrawnValues ==
  {JNull, JInt(1)} \cup ArraysOf(DrawnElements) \cup ObjectsOf(<<"a", "b">>, DrawnElements)

DetectDocs ==
  DrawnScalars \cup ArraysOf(DrawnElements) \cup ObjectsOf(<<"items", "n">>, DrawnValues)

InitDetect ==
  /\ InitPage
  /\ probe \in {[fn |-> "computeTableSections", arg |-> d, out |-> <<>>, done |-> FALSE] :
                  d \in DetectDocs}

Detect ==
  /\ probe.fn = "computeTableSections" /\ ~probe.done
  /\ probe' = [probe EXCEPT !.out = computeTableSections(probe.arg), !.done = TRUE]
  /\ UNCHANGED <<originalJson, workingJson, editor, message, tableSections,
                 currentSection, tableRows, tableColumns, rowMapping, sectionSelect,
                 sectionOptions, filterInput, keySelect, keyOptions, dom, rowEditVars,
                 lastParsedJson, serverVars, net, counters, lastOp>>

NextDetect == Detect

SpecDetect == InitDetect /\ [][NextDetect]_vars


(***************************************************************************)
(* Properties.  A step of applyCellUpdate is recognised by lastOp', which  *)
(* holds the arguments the cell's handler passed.                          *)
(***************************************************************************)
\* The property names of an object, the indices of an array, in order.
KeysOf(x) == [i \in DOMAIN Entries(x) |-> Entries(x)[i].k]

\* x and y are containers of the same kind with the same keys, equal at every key but k.
SameBut(x, y, k) ==
  /\ x.t = y.t
  /\ KeysOf(x) = KeysOf(y)
  /\ \A i \in DOMAIN Entries(x) : Entries(x)[i].k # k => Entries(x)[i].v = Entries(y)[i].v

\* From x to y nothing changed in the containers along path, their entry on the path apart.
RECURSIVE FrameAlong(_, _, _)
FrameAlong(x, y, path) ==
  IF path = <<>> THEN TRUE
  ELSE /\ SameBut(x, y, Head(path))
       /\ Field(x, Head(path)) # <<>>
       /\ FrameAlong(Field(x, Head(path))[1], Field(y, Head(path))[1], Tail(path))

\* new is old with the field column holding value: no field lost, none but column added.
RowEdited(old, new, column, value) ==
  /\ new.t = old.t
  /\ Field(new, column) = <<value>>
  /\ KeysOf(new) = (IF Field(old, column) # <<>> THEN KeysOf(old)
                    ELSE Append(KeysOf(old), column))
  /\ \A i \in DOMAIN Entries(old) :
       Entries(old)[i].k # column => Field(new, Entries(old)[i].k) = <<Entries(old)[i].v>>

\* A cell handler calls applyCellUpdate with a row index that has a mapping entry
\* whose target exists in the Document.
CellEditStep ==
  /\ lastOp'.op = "applyCellUpdate"
  /\ lastOp'.row + 1 \in DOMAIN rowMapping
  /\ Target(workingJson, rowMapping[lastOp'.row + 1]) # <<>>

\* C1: a cell edit through a mapping entry whose target exists changes exactly
\* one place of the Document: the field column of the row object the entry designates becomes the
\* coerced value; the row keeps its other fields, the containers on the way to
\* the row keep their keys, their length and every other entry.
C1_CellEditChangesOnePlace ==
  [][CellEditStep =>
       LET info == rowMapping[lastOp'.row + 1]
           path == info.parentPath \o LastStep(info)
       IN  /\ FrameAlong(workingJson, workingJson', path)
           /\ RowEdited(WalkPath(workingJson, path)[1], WalkPath(workingJson', path)[1],
                        lastOp'.col, parseCellValue(lastOp'.raw))]_vars

\* C1: the checkbox of m1.visible has been switched off in the Meshes section, and
\* m2 is as it was.
C1_Witness ==
  /\ lastOp = [op |-> "applyCellUpdate", row |-> 0, col |-> "visible", raw |-> JBool(FALSE)]
  /\ rowMapping[1].key = <<"m1">>
  /\ workingJson =
       JObj(<<P("Meshes", JObj(<<P("m1", JObj(<<P("visible", JBool(FALSE))>>)),
                                 P("m2", JObj(<<P("visible", JBool(FALSE))>>))>>))>>)

\* A section is selected: the select shows one of the detected sections.
SectionSelected ==
  sectionSelect # "" /\ FindSection(tableSections, sectionSelect) # <<>> /\ Truthy(workingJson)

\* C2: whenever a section is selected, tableRows and rowMapping are the rows and
\* the mapping of the projection of that section of the current Document, and
\* tableColumns holds exactly the keys of those rows.
C2_ViewIsProjectionOfDocument ==
  SectionSelected =>
    LET section == FindSection(tableSections, sectionSelect)[1]
        backing == WalkPath(workingJson, section.path)
    IN  /\ backing # <<>>
        /\ LET proj == buildTableProjection(backing[1], section.path)
           IN  /\ tableRows = proj.rows
               /\ rowMapping = proj.mapping
               /\ Range(tableColumns) = Range(CollectColumns(<<>>, proj.rows, 1))


\* C3: when a cell edit (r, c, v) made through the mapping of the selected
\* section, on a target that exists, is followed by serialisation, detection on the mutated Document and
\* projection of the same section, the section is found again with the same
\* rows in the same order, row r holds the coerced v in column c, and every
\* other value of every row is as the projection before the edit had it.
C3_EditThenReproject ==
  [][CellEditStep =>
       /\ currentSection # <<>>
       /\ \A section \in Range(currentSection) :
          \A before \in {buildTableProjection(WalkPath(workingJson, section.path)[1],
                                              section.path)} :
          \A again \in {FindSection(computeTableSections(workingJson'), section.id)} :
            /\ before.mapping = rowMapping
            /\ editor' = Stringify(workingJson')
            /\ again # <<>>
            /\ \A after \in {buildTableProjection(again[1].json, again[1].path)} :
                 /\ after.mapping = before.mapping
                 /\ Field(after.rows[lastOp'.row + 1], lastOp'.col)
                      = <<parseCellValue(lastOp'.raw)>>
                 /\ \A j \in DOMAIN before.rows :
                      \A k \in Range(KeysOf(before.rows[j]))
                                 \cup Range(KeysOf(after.rows[j])) :
                        (j # lastOp'.row + 1 \/ k # lastOp'.col) =>
                          Field(after.rows[j], k) = Field(before.rows[j], k)]_vars

\* C3: after an edit of an object-backed row and a refresh of the table, the
\* re-projected row shows the coerced value that was typed.
C3_Witness ==
  /\ lastOp.op = "updateTableSectionsAndRender"
  /\ nedit > 0
  /\ \E j \in DOMAIN tableRows :
       /\ rowMapping[j].key # <<>>
       /\ \E c \in DOMAIN tableColumns :
            Field(tableRows[j], tableColumns[c]) \in {<<JInf>>, <<JNum(35, 1)>>}

\* C4: while a load or a save is awaiting its response, the Document is the one
\* the request was issued with.
C4_DocumentFrozenWhilePending ==
  \A m \in net : m.issuedDoc = workingJson

C6_InvalidTextIsNotSent ==
  [][(lastOp'.op = "saveToServer" /\ ~editor.ok) =>
       /\ net' = net
       /\ dataFile' = dataFile
       /\ message'.type = "error"
       /\ UNCHANGED <<workingJson, editor>>]_vars

\* C6: save was clicked on invalid text outside a row edit.
C6_Witness ==
  /\ lastOp.op = "saveToServer"
  /\ ~rowEditMode
  /\ ~editor.ok
  /\ editor = InvalidText
  /\ message = Msg("Invalid JSON: please check commas, quotes and structure.", "error")
  /\ \A m \in net : m.kind # "POST"

\* C7: right after a cell edit the editor text is the serialisation of the
\* mutated Document, and a save clicked next sends a request whose body is that
\* Document.
C7_SaveSendsMutatedDocument ==
  [][(lastOp.op = "applyCellUpdate" /\ lastOp'.op = "saveToServer" /\ ~rowEditMode) =>
       /\ editor = Stringify(workingJson)
       /\ \E m \in net' \ net : m.kind = "POST" /\ m.body.ok /\ m.body.val = workingJson]_vars


\* A scalar: null, a boolean, a number or a string.
IsScalar(x) == x.t \in {"null", "bool", "num", "str"}

\* An object in the sense of JSON: an object or an array, not null.
IsObjectValue(x) == x.t \in {"obj", "arr"}

\* A value that must not become a section: a scalar, an empty array, an empty
\* object, or an array of scalars only.
Sectionless(x) ==
  \/ IsScalar(x)
  \/ x.t = "arr" /\ \A i \in DOMAIN x.v : IsScalar(x.v[i])
  \/ x.t = "obj" /\ x.v = <<>>

\* C8: computeTableSections gives no section to a scalar, an empty array, an
\* empty object or an array of scalars (null among them), neither as the
\* Document nor as a top-level property; a null, scalar or scalar-array Document
\* has no sections at all.
C8_NoSectionForScalars ==
  probe.done =>
    /\ Sectionless(probe.arg) => probe.out = <<>>
    /\ probe.arg.t = "obj" =>
         \A i \in DOMAIN probe.arg.v :
           Sectionless(probe.arg.v[i].v) =>
             \A j \in DOMAIN probe.out : probe.out[j].id # probe.arg.v[i].k

\* A top-level property value that qualifies for a section: a non-empty array
\* whose first element is an object, or a non-array object with a property
\* whose value is an object.
Qualifies(x) ==
  \/ x.t = "arr" /\ x.v # <<>> /\ IsObjectValue(x.v[1])
  \/ x.t = "obj" /\ \E i \in DOMAIN x.v : IsObjectValue(x.v[i].v)

\* C9: for an object Document the sections are, in the order of the Document's
\* keys, one per qualifying top-level property and no other, each with the
\* property's name as id, the path <<name>> and the property's value as backing.
C9_OneSectionPerQualifyingProperty ==
  (probe.done /\ probe.arg.t = "obj") =>
    LET qualifying == SelectSeq(probe.arg.v, LAMBDA p : Qualifies(p.v))
    IN  /\ Len(probe.out) = Len(qualifying)
        /\ \A j \in DOMAIN qualifying :
             /\ probe.out[j].id = qualifying[j].k
             /\ probe.out[j].path = <<qualifying[j].k>>
             /\ probe.out[j].json = qualifying[j].v

\* C10: for a Document that is a non-empty array whose first element is an
\* object, computeTableSections returns exactly one section: id "__root__",
\* empty path, and the Document itself as backing.
C10_RootArrayIsOneSection ==
  (probe.done /\ probe.arg.t = "arr" /\ probe.arg.v # <<>> /\ IsObjectValue(probe.arg.v[1])) =>
    /\ Len(probe.out) = 1
    /\ probe.out[1].id = "__root__"
    /\ probe.out[1].path = <<>>
    /\ probe.out[1].json = probe.arg

\* C10: detection has run on [{}, 1] and returned its root section.
C10_Witness ==
  /\ probe.done
  /\ probe.arg = JArr(<<JObj(<<>>), JInt(1)>>)
  /\ Len(probe.out) = 1
  /\ probe.out[1].id = "__root__"


(***************************************************************************)
(* buildTableProjection applied to a drawn backing value and section path. *)
(***************************************************************************)
\* What the backing array or object of a drawn section holds.
ProjectedElements ==
  {JNull, JInt(1), JObj(<<>>), JObj(<<P("a", JInt(1))>>), JArr(<<JInt(1)>>),
   JObj(<<P("__key", JStr(CharsX)), P("visible", JBool(TRUE))>>)}

ProjectedBackings ==
  {JNull, JInt(1)} \cup ArraysOf(ProjectedElements)
    \cup ObjectsOf(<<"m1", "m2">>, ProjectedElements)

ProjectedPaths == {<<>>, <<"Meshes">>}

InitProject ==
  /\ InitPage
  /\ probe \in {[fn |-> "buildTableProjection", arg |-> [json |-> b, sectionPath |-> path],
                 out |-> <<>>, done |-> FALSE] :
                  b \in ProjectedBackings, path \in ProjectedPaths}

Project ==
  /\ probe.fn = "buildTableProjection" /\ ~probe.done
  /\ probe' = [probe EXCEPT !.out = buildTableProjection(probe.arg.json,
                                                         probe.arg.sectionPath),
                            !.done = TRUE]
  /\ UNCHANGED <<originalJson, workingJson, editor, message, tableSections,
                 currentSection, tableRows, tableColumns, rowMapping, sectionSelect,
                 sectionOptions, filterInput, keySelect, keyOptions, dom, rowEditVars,
                 lastParsedJson, serverVars, net, counters, lastOp>>

NextProject == Project

SpecProject == InitProject /\ [][NextProject]_vars

\* C11: the projection of an array-backed section has one row per element that
\* is an object, in array order, and none for the other elements; the k-th
\* entry of the mapping is {parentPath = the section path, index = the position
\* of that element in the array, key = null}.
C11_ArrayRowsKeepSourceIndex ==
  (probe.fn = "buildTableProjection" /\ probe.done /\ probe.arg.json.t = "arr") =>
    LET items == probe.arg.json.v
        rows == probe.out.rows
        mapping == probe.out.mapping
    IN  /\ Len(rows) = Cardinality({i \in DOMAIN items : IsObjectValue(items[i])})
        /\ Len(mapping) = Len(rows)
        /\ \A k \in DOMAIN mapping :
             /\ mapping[k].parentPath = probe.arg.sectionPath
             /\ mapping[k].key = <<>>
             /\ mapping[k].index # <<>>
             /\ mapping[k].index[1] + 1 \in DOMAIN items
             /\ rows[k] = items[mapping[k].index[1] + 1]
             /\ IsObjectValue(rows[k])
             /\ \A j \in 1..(k - 1) : mapping[j].index[1] < mapping[k].index[1]

\* C11: [1, {"a":1}] has been projected: its one row is the element of index 1.
C11_Witness ==
  /\ probe.fn = "buildTableProjection" /\ probe.done
  /\ probe.arg.json = JArr(<<JInt(1), JObj(<<P("a", JInt(1))>>)>>)
  /\ Len(probe.out.rows) = 1
  /\ probe.out.mapping[1].index = <<1>>

C13_RowsPairWithMapping ==
  /\ Len(tableRows) = Len(rowMapping)
  /\ \A i \in DOMAIN rowMapping :
       /\ (rowMapping[i].index # <<>>) # (rowMapping[i].key # <<>>)
       /\ currentSection # <<>> =>
            (IsArray(currentSection[1].json) <=> rowMapping[i].index # <<>>)

\* C13: the two rows of the object-backed section Meshes are shown, each paired
\* with the entry of its key.
C13_Witness ==
  /\ Len(tableRows) = 2
  /\ Len(rowMapping) = 2
  /\ currentSection # <<>> /\ currentSection[1].id = "Meshes"
  /\ rowMapping[1].key = <<"m1">> /\ rowMapping[2].key = <<"m2">>
  /\ rowMapping[1].index = <<>>


(***************************************************************************)
(* applyCellUpdate applied to a drawn state of the page and drawn          *)
(* arguments.                                                              *)
(***************************************************************************)
\* The page after a document was loaded into the fresh page.
PageLoaded(doc) == Loaded(Client, doc, "JSON loaded from server.")

\* The page after null was then imported and the table rendered again by a
\* change of the filter: the rows and the mapping of the earlier document remain.
PageEmptied(doc) == renderTable(Loaded(PageLoaded(doc), JNull, "JSON loaded from file."), <<>>)

\* The fresh page, and the page with and without a Document.
DrawnPages ==
  {Client} \cup {PageLoaded(doc) : doc \in {DocItems, DocMeshes, DocRoot}}
           \cup {PageEmptied(doc) : doc \in {DocItems, DocMeshes, DocRoot}}

DrawnColumns == {"a", "visible"}
DrawnNewValues == {JBool(FALSE), JStr(Chars3p5)}

InitCellUpdate ==
  /\ InitPage
  /\ probe \in {[fn |-> "applyCellUpdate",
                 arg |-> [c |-> c, rowIndex |-> r, column |-> col, newValue |-> v],
                 out |-> <<>>, done |-> FALSE] :
                  c \in DrawnPages, r \in 0..(MaxLen + 1), col \in DrawnColumns,
                  v \in DrawnNewValues}

CellUpdate ==
  /\ probe.fn = "applyCellUpdate" /\ ~probe.done
  /\ probe' = [probe EXCEPT !.out = applyCellUpdate(probe.arg.c, probe.arg.rowIndex,
                                                    probe.arg.column, probe.arg.newValue),
                            !.done = TRUE]
  /\ UNCHANGED <<originalJson, workingJson, editor, message, tableSections,
                 currentSection, tableRows, tableColumns, rowMapping, sectionSelect,
                 sectionOptions, filterInput, keySelect, keyOptions, dom, rowEditVars,
                 lastParsedJson, serverVars, net, counters, lastOp>>

NextCellUpdate == CellUpdate

SpecCellUpdate == InitCellUpdate /\ [][NextCellUpdate]_vars

\* C14: applyCellUpdate called with a row index that has no mapping entry, or
\* with no Document, changes nothing: the Document, the editor text, tableRows,
\* rowMapping and the message are as before, like the rest of the page.
C14_NoEntryOrNoDocumentIsNoOp ==
  (probe.fn = "applyCellUpdate" /\ probe.done
   /\ (probe.arg.rowIndex + 1 \notin DOMAIN probe.arg.c.rowMapping
       \/ probe.arg.c.workingJson = JNull)) =>
    /\ probe.out.workingJson = probe.arg.c.workingJson
    /\ probe.out.editor = probe.arg.c.editor
    /\ probe.out.tableRows = probe.arg.c.tableRows
    /\ probe.out.rowMapping = probe.arg.c.rowMapping
    /\ probe.out.message = probe.arg.c.message
    /\ probe.out = probe.arg.c

\* C14: the call was made for a row that has a mapping entry while the Document
\* is null, and for a row index beyond the mapping while there is a Document.
C14_Witness ==
  /\ probe.fn = "applyCellUpdate" /\ probe.done
  /\ \/ /\ probe.arg.c.workingJson = JNull
        /\ probe.arg.rowIndex + 1 \in DOMAIN probe.arg.c.rowMapping
        /\ probe.arg.c.dom # <<>>
     \/ /\ probe.arg.c.workingJson # JNull
        /\ probe.arg.rowIndex + 1 \notin DOMAIN probe.arg.c.rowMapping
  /\ probe.out.message = probe.arg.c.message


(***************************************************************************)
(* parseCellValue applied to a drawn raw value.                            *)
(***************************************************************************)
\* The longest text drawn character by character.
MaxChars == 3

CharsFalse == <<"f", "a", "l", "s", "e">>
CharsHello == <<"h", "e", "l", "l", "o">>
Chars42 == <<"4", "2">>

\* Texts a cell can hold: every text of up to MaxChars characters among a space,
\* two digits, the dot, the minus sign and a letter, and some longer ones.
DrawnTexts ==
  SeqsUpTo({" ", "4", "2", ".", "-", "x"}, MaxChars)
    \cup {CharsTrue, CharsFalse, <<" ">> \o CharsTrue \o <<" ">>, CharsFalse \o <<" ">>,
          CharsHello, <<" ">> \o CharsHello, Chars3p5, CharsInfinity,
          CharsTrue \o <<"x">>}

\* What the handlers of a cell pass: the checkbox's state or the cell's text.
DrawnRaws == {JBool(TRUE), JBool(FALSE)} \cup {JStr(s) : s \in DrawnTexts}

InitCoerce ==
  /\ InitPage
  /\ probe \in {[fn |-> "parseCellValue", arg |-> raw, out |-> <<>>, done |-> FALSE] :
                  raw \in DrawnRaws}

Coerce ==
  /\ probe.fn = "parseCellValue" /\ ~probe.done
  /\ probe' = [probe EXCEPT !.out = parseCellValue(probe.arg), !.done = TRUE]
  /\ UNCHANGED <<originalJson, workingJson, editor, message, tableSections,
                 currentSection, tableRows, tableColumns, rowMapping, sectionSelect,
                 sectionOptions, filterInput, keySelect, keyOptions, dom, rowEditVars,
                 lastParsedJson, serverVars, net, counters, lastOp>>

NextCoerce == Coerce

SpecCoerce == InitCoerce /\ [][NextCoerce]_vars

\* C15: parseCellValue returns a boolean unchanged; for a text, with t the
\* trimmed text, it returns true for "true", false for "false", the number
\* Number(t) when t is not empty and Number(t) is not NaN, and the string t
\* otherwise: "42" gives 42, " 3.5 " gives 3.5, "hello" gives "hello", "" gives "".
C15_CoercionTable ==
  (probe.fn = "parseCellValue" /\ probe.done) =>
    /\ probe.arg.t = "bool" => probe.out = probe.arg
    /\ probe.arg.t = "str" =>
         \A t \in {Trim(probe.arg.v)} :
           /\ TrimLeft(t) = t /\ TrimRight(t) = t
           /\ t = CharsTrue => probe.out = JBool(TRUE)
           /\ t = CharsFalse => probe.out = JBool(FALSE)
           /\ (t \notin {CharsTrue, CharsFalse, <<>>} /\ Number(t).ok) =>
                probe.out = Number(t).num
           /\ (t \notin {CharsTrue, CharsFalse} /\ (t = <<>> \/ ~Number(t).ok)) =>
                probe.out = JStr(t)
    /\ probe.arg = JStr(Chars42) => probe.out = JInt(42)
    /\ probe.arg = JStr(Chars3p5) => probe.out = JNum(35, 1)
    /\ probe.arg = JStr(CharsHello) => probe.out = JStr(CharsHello)
    /\ probe.arg = JStr(<<>>) => probe.out = JStr(<<>>)
    /\ probe.arg = JStr(<<" ", " ">>) => probe.out = JStr(<<>>)
    /\ probe.arg = JStr(<<"-", "4", ".">>) => probe.out = JInt(0 - 4)
    /\ probe.arg = JStr(<<"4", "x">>) => probe.out = JStr(<<"4", "x">>)
    /\ probe.arg = JStr(<<".", "2">>) => probe.out = JNum(2, 1)

\* C15: " 3.5 " was coerced to the number 3.5.
C15_Witness ==
  /\ probe.fn = "parseCellValue" /\ probe.done
  /\ probe.arg = JStr(Chars3p5)
  /\ probe.out = JNum(35, 1)


\* C16: an import that is rejected, for the name of the file or for its
\* content, leaves the Document, originalJson, the editor text, the sections,
\* the rows and the mapping as they were and shows an error; an import that
\* succeeds makes the parsed content the whole Document.
C16_ImportRejectsOrReplaces ==
  [][lastOp'.op = "handleFileChange" =>
       \A f \in {lastOp'.raw} :
         /\ (f.chosen /\ (~f.json \/ ~f.content.ok)) =>
              /\ UNCHANGED <<workingJson, originalJson, editor, tableSections, tableRows,
                             rowMapping>>
              /\ message'.type = "error"
         /\ (f.chosen /\ f.json /\ f.readable /\ f.content.ok) =>
              /\ workingJson' = f.content.val
              /\ originalJson' = f.content.val
              /\ editor' = Stringify(f.content.val)
              /\ message'.type = "success"]_vars

\* C16: a file whose name does not end in .json was refused while a Document
\* was loaded, and the Document is still there.
C16_Witness ==
  /\ lastOp.op = "handleFileChange"
  /\ ~lastOp.raw.json
  /\ message = Msg("Please select a .json file.", "error")
  /\ workingJson \in {DocItems, DocMeshes}
  /\ tableRows # <<>>


\* C17 as stated: a POST whose body is not a JSON object (an array, a scalar or
\* null) is answered 400 with an error body and leaves the file alone; only an
\* object is written and answered 200 {success: true}.
C17_OnlyObjectsAreWritten ==
  [][\A m \in net : \A a \in net' :
       (m.kind = "POST" /\ m.stage = "sent" /\ a.id = m.id /\ a.stage = "answered") =>
         /\ m.body.val.t # "obj" =>
              /\ a.status = 400
              /\ HasKey(a.body.val, "error")
              /\ dataFile' = dataFile
         /\ a.status = 200 =>
              /\ m.body.val.t = "obj"
              /\ dataFile' = Stringify(m.body.val)
              /\ a.body = SuccessBody]_vars

\* C17: a POST whose body is a scalar or null is answered 400 with an error body
\* and leaves the file alone; only an object or an array is written and answered
\* 200 {success: true}.
C17_OnlyObjectsAndArraysAreWritten ==
  [][\A m \in net : \A a \in net' :
       (m.kind = "POST" /\ m.stage = "sent" /\ a.id = m.id /\ a.stage = "answered") =>
         /\ m.body.val.t \notin {"obj", "arr"} =>
              /\ a.status = 400
              /\ HasKey(a.body.val, "error")
              /\ dataFile' = dataFile
         /\ a.status = 200 =>
              /\ m.body.val.t \in {"obj", "arr"}
              /\ dataFile' = Stringify(m.body.val)
              /\ a.body = SuccessBody]_vars

\* C17: a POST of null has been answered 400 and the file is one of the initial
\* ones; or a POST of an array has been answered 200 and the file holds the array.
C17_Witness ==
  \E a \in net :
    /\ a.kind = "POST" /\ a.stage = "answered"
    /\ \/ a.parsed = JNull /\ a.status = 400 /\ dataFile \in InitialFiles
       \/ a.parsed.t = "arr" /\ a.status = 200 /\ dataFile = Stringify(a.parsed)


\* C18: the file is replaced wholesale.  A POST answered 200 with document D
\* leaves the file holding D and nothing else; a POST answered 400 or 500, and
\* every step that is not the answer to a POST, leaves the file as it was; and a
\* GET is answered 200 with the content of the file.  Together: after a POST
\* answered 200 with D, every GET returns D until the next POST answered 200.
C18_FileReplacedWholesale ==
  [][/\ \A m \in net : \A a \in net' :
          (m.stage = "sent" /\ a.id = m.id /\ a.stage = "answered") =>
            /\ (m.kind = "POST" /\ a.status = 200) => dataFile' = Stringify(m.body.val)
            /\ (m.kind = "POST" /\ a.status \in {400, 500}) => dataFile' = dataFile
            /\ (m.kind = "GET" /\ dataFile.ok) =>
                 /\ a.status = 200
                 /\ a.body = Stringify(dataFile.val)
                 /\ dataFile' = dataFile
     /\ (\A m \in net : \A a \in net' :
           ~(m.kind = "POST" /\ m.stage = "sent" /\ a.id = m.id /\ a.stage = "answered"))
          => dataFile' = dataFile]_vars


\* C19: when loadFromServer resumes with a failure (the request was lost, or the
\* answer is not a 200 with a JSON body), the Document, originalJson, the editor
\* text, the sections, the rows and the mapping stay as they were, the message is
\* the error message, and no request is issued.
C19_FailedLoadChangesNothing ==
  [][lastOp'.op = "loadFromServer.response" =>
       \A m \in net :
         (m.id = lastOp'.row /\ ~(Ok(m) /\ m.body.ok)) =>
           /\ UNCHANGED <<workingJson, originalJson, editor, tableSections, tableRows,
                          rowMapping>>
           /\ message' = Msg("Failed to load JSON from server.", "error")
           /\ net' = net \ {m}
           /\ nreq' = nreq]_vars

\* C19: a load has just failed while a Document with rows was shown; it is still
\* there and no request is pending.
C19_Witness ==
  /\ lastOp.op = "loadFromServer.response"
  /\ message = Msg("Failed to load JSON from server.", "error")
  /\ workingJson # JNull /\ editor = Stringify(workingJson)
  /\ tableRows # <<>> /\ Len(rowMapping) = Len(tableRows)
  /\ net = {}


\* C20: refreshing the view is idempotent and read-only.  In every state, a second
\* run of updateTableSectionsAndRender right after a first one yields the same
\* section list (in the page and in the select), the same selected section, and
\* equal rows, columns and mapping as the first run, and neither run changes the
\* Document.
C20_RefreshIsIdempotent ==
  \A t1 \in {updateTableSectionsAndRender(Client, workingJson, filterInput)} :
    \A t2 \in {updateTableSectionsAndRender(t1, workingJson, filterInput)} :
      /\ t2.tableSections = t1.tableSections
      /\ t2.sectionOptions = t1.sectionOptions
      /\ t2.sectionSelect = t1.sectionSelect
      /\ t2.currentSection = t1.currentSection
      /\ t2.tableRows = t1.tableRows
      /\ t2.tableColumns = t1.tableColumns
      /\ t2.rowMapping = t1.rowMapping
      /\ t1.workingJson = workingJson
      /\ t2.workingJson = workingJson

\* C20: the view of a Document with two sections has just been refreshed with the
\* second section selected; a further run keeps the sections, the selection and
\* the rows.
C20_Witness ==
  /\ lastOp.op = "updateTableSectionsAndRender"
  /\ Len(tableSections) = 2
  /\ sectionSelect = tableSections[2].id
  /\ tableRows # <<>>
  /\ updateTableSectionsAndRender(Client, workingJson, filterInput).tableRows = tableRows
  /\ updateTableSectionsAndRender(Client, workingJson, filterInput).sectionSelect = sectionSelect


(***************************************************************************)
(* The page from the moment a file has been imported over the document of  *)
(* the first load: a state Spec reaches with one input, taken here as the  *)
(* start so that the inputs that follow are counted from it.               *)
(***************************************************************************)
\* The page as the script's declarations leave it (InitPage, as a record).
FreshPage ==
  [originalJson |-> JNull, workingJson |-> JNull, editor |-> EmptyText,
   message |-> Msg("Loading JSON from server...", "info"), tableSections |-> <<>>,
   currentSection |-> <<>>, tableRows |-> <<>>, tableColumns |-> <<>>,
   rowMapping |-> <<>>, sectionSelect |-> "", sectionOptions |-> <<>>,
   keySelect |-> "", keyOptions |-> <<>>, dom |-> <<>>]

\* The variables of the page hold the record c.
InitClient(c) ==
  /\ originalJson = c.originalJson
  /\ workingJson = c.workingJson
  /\ editor = c.editor
  /\ message = c.message
  /\ tableSections = c.tableSections
  /\ currentSection = c.currentSection
  /\ tableRows = c.tableRows
  /\ tableColumns = c.tableColumns
  /\ rowMapping = c.rowMapping
  /\ sectionSelect = c.sectionSelect
  /\ sectionOptions = c.sectionOptions
  /\ keySelect = c.keySelect
  /\ keyOptions = c.keyOptions
  /\ dom = c.dom

NullFile == File(TRUE, TRUE, TRUE, Stringify(JNull))
RootFile == File(TRUE, TRUE, TRUE, Stringify(DocRoot))
ImportedFiles == {NullFile, RootFile}

InitImported ==
  /\ filterInput = <<>>
  /\ dataFile \in InitialFiles
  /\ \E f \in ImportedFiles :
       /\ lastParsedJson = f.content.val
       /\ lastOp = [Op("handleFileChange") EXCEPT !.raw = f, !.row = 1]
       /\ \E c \in {Loaded(Loaded(FreshPage, dataFile.val, "JSON loaded from server."),
                           f.content.val, "JSON loaded from file.")} :
            InitClient(c)
  /\ rowEditMode = FALSE
  /\ selectedRowInfo = <<>>
  /\ fullJsonBackup = <<>>
  /\ net = {}
  /\ nreq = 1
  /\ nedit = 0
  /\ ninput = 0
  /\ probe = NoProbe

SpecImported == InitImported /\ [][Next]_vars

\* C21: every cell handler of the rendered table can be resolved.  For each
\* rendered row, the mapping index its handlers hold names an entry of rowMapping,
\* and walking that entry's parentPath and then its index or key from the current
\* Document reaches an existing object.
C21_EveryCellHandlerResolves ==
  \A k \in DOMAIN dom :
    /\ dom[k].mi + 1 \in DOMAIN rowMapping
    /\ \A info \in {rowMapping[dom[k].mi + 1]} :
         /\ LastStep(info) # <<>>
         /\ \A target \in {Target(workingJson, info)} :
              target # <<>> /\ TruthyObject(target[1])


\* C22: with any filter text and filter column, a cell edit made in the k-th row
\* of the table as rendered goes through the mapping entry of the projected row
\* displayed there, rowMapping[displayRowIndices[k]]: the row's cells show that
\* projected row, an array-backed row is the Document row the entry designates,
\* the edited field of that Document row takes the coerced value, and the rows
\* designated by the other entries are as they were.
C22_EditGoesThroughDisplayedRow ==
  [][(CellEditStep /\ dom = renderTable(Client, filterInput).dom) =>
       \A idx \in {DisplayRowIndices(tableRows, tableColumns, FilterText(filterInput),
                                     keySelect, 1)} :
         \E k \in DOMAIN idx :
           /\ idx[k] = lastOp'.row
           /\ \A c \in DOMAIN tableColumns :
                dom[k].cells[c] = RenderCell(tableRows[idx[k] + 1], tableColumns[c])
           /\ \A info \in {rowMapping[idx[k] + 1]} :
                /\ info.index # <<>> => Target(workingJson, info) = <<tableRows[idx[k] + 1]>>
                /\ Field(Target(workingJson', info)[1], lastOp'.col)
                     = <<parseCellValue(lastOp'.raw)>>
           /\ \A j \in DOMAIN rowMapping :
                j # idx[k] + 1 =>
                  Target(workingJson', rowMapping[j]) = Target(workingJson, rowMapping[j])]_vars

\* C22: under the filter "x" the root array shows its third element alone, as the
\* first row of the table; an edit made there went through the second mapping
\* entry, whose index is 2, and changed that element and no other.
C22_Witness ==
  /\ lastOp.op = "applyCellUpdate" /\ lastOp.row = 1
  /\ filterInput = CharsX
  /\ Len(dom) = 1 /\ dom[1].mi = 1
  /\ Len(rowMapping) = 2 /\ rowMapping[2].index = <<2>>
  /\ workingJson.t = "arr"
  /\ workingJson.v[1] = DocRoot.v[1]
  /\ Field(workingJson.v[3], lastOp.col) = <<parseCellValue(lastOp.raw)>>
  /\ workingJson.v[3] # DocRoot.v[3]


\* C23: a cell edit whose raw value is the text the table shows for the current
\* value of the Document field (String(value), or the empty text for null or a
\* missing field), as when an editable cell loses focus unchanged, leaves the
\* Document as it was.
C23_UnchangedBlurKeepsDocument ==
  [][CellEditStep =>
       \A row \in {Target(workingJson, rowMapping[lastOp'.row + 1])[1]} :
         \A cell \in {RenderCell(row, lastOp'.col)} :
           (cell.kind = "text" /\ lastOp'.raw = JStr(cell.text)) =>
             workingJson' = workingJson]_vars


\* A load or an import has just put a Document in place, or the view was refreshed.
ViewRebuilt ==
  \/ lastOp'.op = "loadFromServer.response" /\ message'.type = "success"
  \/ lastOp'.op = "handleFileChange" /\ lastOp'.row = 1
  \/ lastOp'.op = "updateTableSectionsAndRender"

\* C24: after a load, an import or a refresh that detects at least one section,
\* the selected section is the previously selected one if it is still detected,
\* else the first; currentSection is that section, an element of tableSections,
\* and tableRows and rowMapping are its projection.  When no section is detected,
\* currentSection is null and tableRows and rowMapping are empty.
C24_SectionShownAfterRebuild ==
  [][ViewRebuilt =>
       IF tableSections' # <<>>
         THEN \A id \in {IF sectionSelect # "" /\ FindSection(tableSections', sectionSelect) # <<>>
                           THEN sectionSelect ELSE tableSections'[1].id} :
                /\ sectionSelect' = id
                /\ currentSection' = FindSection(tableSections', id)
                /\ currentSection' # <<>>
                /\ currentSection'[1] \in Range(tableSections')
                /\ \A proj \in {buildTableProjection(currentSection'[1].json,
                                                     currentSection'[1].path)} :
                     /\ tableRows' = proj.rows
                     /\ rowMapping' = proj.mapping
         ELSE /\ currentSection' = <<>>
              /\ tableRows' = <<>>
              /\ rowMapping' = <<>>]_vars


\* C25: typing in the raw-text editor changes neither the Document nor the
\* sections, the rows or the mapping; a cell edit that passes applyCellUpdate's
\* guard replaces the whole editor text with the pretty-printed Document; and a
\* save sends what the editor text then denotes.  So what was typed before the
\* cell edit is absent from what a later save sends.
C25_CellEditOverwritesTypedText ==
  [][/\ lastOp'.op = "editor.input" =>
          UNCHANGED <<workingJson, originalJson, tableSections, currentSection, tableRows,
                      tableColumns, rowMapping>>
     /\ (CellEditStep /\ Truthy(workingJson)) =>
          /\ editor' = Stringify(workingJson')
          /\ editor' \notin TypedTexts
     /\ lastOp'.op = "saveToServer" =>
          \A m \in net' \ net :
            /\ m.kind = "POST"
            /\ editor.ok
            /\ m.body = Stringify(editor.val)
            /\ m.parsed = editor.val]_vars

\* C25: after a cell edit of the loaded document a save has been issued; its body
\* is the pretty-printed Document, which none of the typed texts is, with one
\* input made and the section, the filter and the filter column as loaded.
C25_Witness ==
  /\ lastOp.op = "saveToServer"
  /\ nedit = 1 /\ ninput = 1
  /\ filterInput = <<>> /\ keySelect = "" /\ sectionSelect = "items"
  /\ workingJson # DocItems /\ Field(workingJson, "n") = <<JInt(5)>>
  /\ editor = Stringify(workingJson)
  /\ \E m \in net :
       /\ m.kind = "POST" /\ m.stage = "sent"
       /\ m.body = Stringify(workingJson)
       /\ m.body \notin TypedTexts

====
